---- MODULE Spec2Model ----
(***************************************************************************)
(* fc2-backup (src/main.cpp): one run of main() archives the sub-directory *)
(* trees of the sessions directory into archives/<hour>.zip and nests that *)
(* file into archives/<date>.zip.  The model covers repeated runs of       *)
(* main() over a persistent disk (the sessions tree, the hourly archives   *)
(* and the daily archives), every libzip / filesystem call being able to   *)
(* fail.                                                                   *)
(*                                                                         *)
(* libzip semantics relied upon: an archive opened with zip_open lives in  *)
(* memory until zip_close writes it; zip_close returns -1 and leaves the   *)
(* file on disk and the handle untouched when it fails; zip_dir_add and    *)
(* zip_file_add without ZIP_FL_OVERWRITE fail when the name exists; the    *)
(* data of a zip_source_file is read when the archive is closed; closing   *)
(* an archive that has no entries writes no file and removes the old one.  *)
(***************************************************************************)
EXTENDS Integers, Sequences, FiniteSets, TLC

\* ---------------------------------------------------------------- bounds
MaxSlot == 3        \* the clock runs over the hour buckets 0..MaxSlot
HoursPerDay == 2    \* hour buckets per calendar day

\* ------------------------------------------------------------- constants
BACKUP_DIRECTORY_NAME == "archives"

blacklist == {"archives", "fc2t"}

CrashStatus == 139

NoExit == -1

\* ------------------------------------------------------------ time names
Slots == 0..MaxSlot

DayOf(s) == s \div HoursPerDay

HourOf(s) == s % HoursPerDay

Days == {DayOf(s) : s \in Slots}

Hours == {HourOf(s) : s \in Slots}

\* oss_now.str(): the hour-format file name
NowName(h) == "h" \o ToString(h) \o ".zip"

\* oss_today.str(): the date-format file name
TodayName(d) == "d" \o ToString(d) \o ".zip"

\* ------------------------------------------------------------ tree model
Dir(p) == [path |-> p, dir |-> TRUE]

File(p) == [path |-> p, dir |-> FALSE]

Front(s) == SubSeq(s, 1, Len(s) - 1)

Last(s) == s[Len(s)]

Range(s) == {s[k] : k \in DOMAIN s}

\* The candidate entries of the sessions directory, in the pre-order in
\* which recursive_directory_iterator visits them (a directory before its
\* contents).
Universe == <<
    Dir(<<"fc2t">>),
    File(<<"fc2t", "stuff.txt">>),
    File(<<"loose.txt">>),
    Dir(<<"c4">>),
    Dir(<<"c4", "scripts">>),
    File(<<"c4", "scripts", "a.lua">>),
    Dir(<<"c4", "logs">>),
    File(<<"c4", "logs", "b.log">>),
    Dir(<<"c4", "fc2t">>),
    File(<<"c4", "fc2t", "x.lua">>),
    File(<<"c4", "archives">>) >>

\* A source tree: every entry's parent directory is in the tree too.
Trees == {t \in SUBSET Range(Universe) :
            \A e \in t : Len(e.path) > 1 => Dir(Front(e.path)) \in t}

\* session.directory as std::filesystem::path elements: with and without a
\* trailing directory separator (which yields a final empty element).
SessionDirs == { <<"/", "sessions">>, <<"/", "sessions", "">> }

\* entry.path(): the iterator appends the entry's names to the root, adding
\* a separator only when the root does not end in one.
EntryPath(sess, rel) == (IF Last(sess) = "" THEN Front(sess) ELSE sess) \o rel

\* std::filesystem::path::parent_path()
ParentPath(p) == Front(p)

\* is_blacklisted: walk the path from its file name to its root and compare
\* every name with the blacklist.
is_blacklisted_leaf(p) == p # <<>> /\ Last(p) \in blacklist

RECURSIVE is_blacklisted(_)

is_blacklisted(p) ==
    IF p = <<>> THEN FALSE
    ELSE IF Last(p) \in blacklist THEN TRUE
    ELSE is_blacklisted(ParentPath(p))

\* directories::sessions == entry.path().parent_path().string()
ParentIsSessions(sess, rel) == sess = ParentPath(EntryPath(sess, rel))

\* zip_dir_add / zip_file_add on the in-memory archive
NameExists(arch, p) == \E e \in arch : e.path = p

ZipAddDirsOnly(arch, e) == IF e.dir THEN arch \cup {e} ELSE arch

ZipAdd(arch, e) == arch \cup {e}

\* ----------------------------------------------------------------- state
VARIABLES
    sessions,       \* session.directory of the open session, as path elements
    tree,           \* the entries of the sessions directory besides archives/
    archivesExists, \* whether directories::archives exists on disk
    hourly,         \* hour -> entries of archives/<hour>.zip, where it exists
    daily,          \* day -> (hour -> content of the nested entry)
    clock,          \* the current hour bucket
    pc,             \* position of the running main()
    runSlot,        \* the hour bucket main() read from the clock
    i,              \* index of the walk's next entry
    pending,        \* entries of now_zip, in memory
    nowHandle,      \* now_zip: "unopened", "open" or "closed" (freed)
    todayHandle,    \* today_zip: "unopened", "open" or "closed" (freed)
    todayNames,     \* names of today_zip's entries, in memory
    srcHandle,      \* the handle the nested entry's source was created with
    exit,           \* the process exit status, NoExit while running
    failed,         \* the stages of this run in which a call failed
    built,          \* <<entries>> written by this run's zip_close(now_zip)
    usedAfterClose, \* a closed handle was passed to libzip
    okRuns          \* day -> hours in which a run ended with status 0

vars == <<sessions, tree, archivesExists, hourly, daily, clock, pc, runSlot,
          i, pending, nowHandle, todayHandle, todayNames, srcHandle, exit,
          failed, built, usedAfterClose, okRuns>>

disk == <<sessions, tree, archivesExists, hourly, daily, clock>>

day == DayOf(runSlot)

hour == HourOf(runSlot)

\* The entries below archives/, as the walk finds them.
HourSeq == [k \in 1..Cardinality(Hours) |-> k - 1]

DaySeq == [k \in 1..Cardinality(Days) |-> k - 1]

NowFiles ==
    LET hs == SelectSeq(HourSeq, LAMBDA h : h \in DOMAIN hourly)
    IN  [k \in 1..Len(hs) |-> File(<<BACKUP_DIRECTORY_NAME, NowName(hs[k])>>)]

TodayFiles ==
    LET ds == SelectSeq(DaySeq, LAMBDA d : d \in DOMAIN daily)
    IN  [k \in 1..Len(ds) |-> File(<<BACKUP_DIRECTORY_NAME, TodayName(ds[k])>>)]

\* recursive_directory_iterator( directories::sessions )
WalkSeq ==
    (IF archivesExists
       THEN <<Dir(<<BACKUP_DIRECTORY_NAME>>)>> \o NowFiles \o TodayFiles
       ELSE <<>>)
    \o SelectSeq(Universe, LAMBDA e : e \in tree)

\* zip_open( now, ZIP_CREATE | ZIP_TRUNCATE ): the archive starts empty
OpenKeeping(h) == IF h \in DOMAIN hourly THEN hourly[h] ELSE {}

OpenTruncated(h) == {}

\* zip_close on success: the archive replaces the file; an archive without
\* entries is not written, and the file is removed.
WriteArchive(files, name, entries) ==
    IF entries = {}
      THEN [n \in DOMAIN files \ {name} |-> files[n]]
      ELSE (name :> entries) @@ files

\* zip_open( today, ZIP_CREATE ): the archive starts with the file's entries
TodayOld(d) == IF d \in DOMAIN daily THEN daily[d] ELSE <<>>

\* ------------------------------------------------------------------ Init
Init ==
    /\ sessions \in SessionDirs
    /\ tree \in Trees
    /\ archivesExists \in BOOLEAN
    /\ hourly = <<>>
    /\ daily = <<>>
    /\ clock = 0
    /\ pc = "idle"
    /\ runSlot = 0
    /\ i = 1
    /\ pending = {}
    /\ nowHandle = "unopened"
    /\ todayHandle = "unopened"
    /\ todayNames = {}
    /\ srcHandle = "none"
    /\ exit = NoExit
    /\ failed = {}
    /\ built = <<>>
    /\ usedAfterClose = FALSE
    /\ okRuns = [d \in Days |-> {}]

\* return <status>: the process ends; what was not closed is never written
Return(status, stage) ==
    /\ pc' = "done"
    /\ exit' = status
    /\ failed' = IF stage = "" THEN failed ELSE failed \cup {stage}
    /\ okRuns' = IF status = 0
                   THEN [okRuns EXCEPT ![day] = @ \cup {hour}]
                   ELSE okRuns

\* lines 54-79: get the session, read the clock, name the archives
Start ==
    /\ pc \in {"idle", "done"}
    /\ runSlot' = clock
    /\ i' = 1
    /\ pending' = {}
    /\ nowHandle' = "unopened"
    /\ todayHandle' = "unopened"
    /\ todayNames' = {}
    /\ srcHandle' = "none"
    /\ built' = <<>>
    /\ usedAfterClose' = FALSE
    /\ \E open \in BOOLEAN :
         IF open
           THEN /\ pc' = "mkdir"
                /\ exit' = NoExit
                /\ failed' = {}
                /\ okRuns' = okRuns
           ELSE /\ pc' = "done"
                /\ exit' = 1
                /\ failed' = {"precondition"}
                /\ okRuns' = okRuns
    /\ UNCHANGED disk

\* lines 95-104: create the archives directory
CreateArchives ==
    /\ pc = "mkdir"
    /\ IF archivesExists
         THEN /\ pc' = "open_now"
              /\ UNCHANGED <<archivesExists, exit, failed, okRuns>>
         ELSE \E ok \in BOOLEAN :
                IF ok
                  THEN /\ archivesExists' = TRUE
                       /\ pc' = "open_now"
                       /\ UNCHANGED <<exit, failed, okRuns>>
                  ELSE /\ Return(1, "mkdir")
                       /\ UNCHANGED archivesExists
    /\ UNCHANGED <<sessions, tree, hourly, daily, clock, runSlot, i, pending,
                   nowHandle, todayHandle, todayNames, srcHandle, built,
                   usedAfterClose>>

\* lines 126-131: zip_open( now )
OpenNow ==
    /\ pc = "open_now"
    /\ \E ok \in BOOLEAN :
         IF ok
           THEN /\ nowHandle' = "open"
                /\ pending' = OpenTruncated(hour)
                /\ i' = 1
                /\ pc' = "walk"
                /\ UNCHANGED <<exit, failed, okRuns>>
           ELSE /\ Return(1, "hourly_open")
                /\ UNCHANGED <<nowHandle, pending, i>>
    /\ UNCHANGED <<disk, runSlot, todayHandle, todayNames, srcHandle, built,
                   usedAfterClose>>

\* lines 140-205: one iteration of the walk
WalkStep ==
    /\ pc = "walk"
    /\ i <= Len(WalkSeq)
    /\ LET entry == WalkSeq[i]
           path  == entry.path
       IN  IF is_blacklisted(path) \/ ParentIsSessions(sessions, path)
             THEN /\ i' = i + 1
                  /\ UNCHANGED <<pc, pending, exit, failed, okRuns>>
             ELSE \E ok \in BOOLEAN :
                    IF ok /\ ~NameExists(pending, path)
                      THEN /\ pending' = ZipAdd(pending, entry)
                           /\ i' = i + 1
                           /\ UNCHANGED <<pc, exit, failed, okRuns>>
                      ELSE /\ Return(1, "hourly_add")
                           /\ UNCHANGED <<pending, i>>
    /\ UNCHANGED <<disk, runSlot, nowHandle, todayHandle, todayNames,
                   srcHandle, built, usedAfterClose>>

\* line 212: zip_close( now_zip ), its result ignored
CloseNow ==
    /\ pc = "walk"
    /\ i > Len(WalkSeq)
    /\ pc' = "open_today"
    /\ \E ok \in BOOLEAN :
         IF ok
           THEN /\ hourly' = WriteArchive(hourly, hour, pending)
                /\ nowHandle' = "closed"
                /\ built' = <<pending>>
                /\ UNCHANGED failed
           ELSE /\ failed' = failed \cup {"hourly_close"}
                /\ UNCHANGED <<hourly, nowHandle, built>>
    /\ UNCHANGED <<sessions, tree, archivesExists, daily, clock, runSlot, i,
                   pending, todayHandle, todayNames, srcHandle, exit,
                   usedAfterClose, okRuns>>

\* lines 217-222: zip_open( today )
OpenToday ==
    /\ pc = "open_today"
    /\ \E ok \in BOOLEAN :
         IF ok
           THEN /\ todayHandle' = "open"
                /\ todayNames' = DOMAIN TodayOld(day)
                /\ pc' = "add_today"
                /\ UNCHANGED <<exit, failed, okRuns>>
           ELSE /\ Return(1, "daily_open")
                /\ UNCHANGED <<todayHandle, todayNames>>
    /\ UNCHANGED <<disk, runSlot, i, pending, nowHandle, srcHandle, built,
                   usedAfterClose>>

\* lines 224-230: zip_source_file( now_zip, now ) and zip_file_add( today_zip ).
\* now_zip is dangling when zip_close freed it: the call may work, fail or
\* crash the process.
SourceOutcomes ==
    IF nowHandle = "closed" THEN {"ok", "null", "crash"} ELSE {"ok", "null"}

AddToday ==
    /\ pc = "add_today"
    /\ usedAfterClose' = (nowHandle = "closed")
    /\ \E src \in SourceOutcomes, ok \in BOOLEAN :
         CASE src = "crash" ->
                /\ Return(CrashStatus, "daily_add")
                /\ UNCHANGED <<todayNames, srcHandle>>
           [] src = "null" ->
                /\ Return(1, "daily_add")
                /\ UNCHANGED <<todayNames, srcHandle>>
           [] OTHER ->
                /\ srcHandle' = "now"
                /\ IF ok /\ hour \notin todayNames
                     THEN /\ todayNames' = todayNames \cup {hour}
                          /\ pc' = "close_today"
                          /\ UNCHANGED <<exit, failed, okRuns>>
                     ELSE /\ Return(1, "daily_add")
                          /\ UNCHANGED todayNames
    /\ UNCHANGED <<disk, runSlot, i, pending, nowHandle, todayHandle, built>>

\* lines 235-236: zip_close( today_zip ), its result ignored, and return 0.
\* The nested entry's data is read from archives/<hour>.zip here.
CloseToday ==
    /\ pc = "close_today"
    /\ \E ok \in BOOLEAN :
         IF ok /\ hour \in DOMAIN hourly
           THEN /\ daily' = (day :> ((hour :> hourly[hour]) @@ TodayOld(day)))
                            @@ daily
                /\ todayHandle' = "closed"
                /\ Return(0, "")
           ELSE /\ Return(0, "daily_close")
                /\ UNCHANGED <<daily, todayHandle>>
    /\ UNCHANGED <<sessions, tree, archivesExists, hourly, clock, runSlot, i,
                   pending, nowHandle, todayNames, srcHandle, built,
                   usedAfterClose>>

\* the clock reaches the next hour bucket (between runs)
Tick ==
    /\ pc \in {"idle", "done"}
    /\ clock < MaxSlot
    /\ clock' = clock + 1
    /\ UNCHANGED <<sessions, tree, archivesExists, hourly, daily, pc, runSlot,
                   i, pending, nowHandle, todayHandle, todayNames, srcHandle,
                   exit, failed, built, usedAfterClose, okRuns>>

Next ==
    \/ Start
    \/ CreateArchives
    \/ OpenNow
    \/ WalkStep
    \/ CloseNow
    \/ OpenToday
    \/ AddToday
    \/ CloseToday

\* Runs of main() within one hour bucket, over every source tree.
Spec == Init /\ [][Next]_vars

\* The tree of the scenario: archives/ apart, which archivesExists holds.
ScenarioTree == {
    Dir(<<"fc2t">>), File(<<"fc2t", "stuff.txt">>), File(<<"loose.txt">>),
    Dir(<<"c4">>), Dir(<<"c4", "scripts">>), File(<<"c4", "scripts", "a.lua">>),
    Dir(<<"c4", "logs">>), File(<<"c4", "logs", "b.log">>) }

RotateTrees == { {}, ScenarioTree, Range(Universe) }

InitRotate ==
    /\ Init
    /\ tree \in RotateTrees

NextRotate ==
    \/ Next
    \/ Tick

\* Runs of main() over several hour buckets and days, the clock advancing
\* between runs.
SpecRotate == InitRotate /\ [][NextRotate]_vars

\* ---------------------------------------------------------------- claims
\* every stage of the finished run succeeded and it returned 0
Successful == pc = "done" /\ exit = 0 /\ failed = {}

NoBlacklistedSegment(p) == \A k \in DOMAIN p : p[k] \notin {"archives", "fc2t"}

\* C1: no entry of an hourly archive, on disk or being built, has a path
\* with a segment, at any depth, that is a blacklisted name.
C1_NoBlacklistedEntry ==
    /\ \A h \in DOMAIN hourly : \A e \in hourly[h] : NoBlacklistedSegment(e.path)
    /\ \A e \in pending : NoBlacklistedSegment(e.path)

\* C1 witness: a run wrote a non-empty hourly archive from a tree holding
\* the descendant of a nested blacklisted directory and of a top-level one,
\* with archives/ itself on disk.
C1_Witness ==
    /\ pc = "done"
    /\ built # <<>>
    /\ built[1] # {}
    /\ hourly[hour] = built[1]
    /\ File(<<"c4", "fc2t", "x.lua">>) \in tree
    /\ File(<<"fc2t", "stuff.txt">>) \in tree
    /\ archivesExists

\* C2 (as claimed): after a successful run every directory of the tree
\* without a blacklisted segment, the direct children of the sessions
\* directory included, is a directory entry of the hourly archive, and the
\* archive of the scenario tree holds exactly the five listed entries.
C2_DirectoriesArchived ==
    Successful =>
      /\ \A e \in tree :
           (e.dir /\ NoBlacklistedSegment(e.path)) => e \in hourly[hour]
      /\ tree = ScenarioTree =>
           hourly[hour] = { Dir(<<"c4">>),
                            Dir(<<"c4", "scripts">>),
                            File(<<"c4", "scripts", "a.lua">>),
                            Dir(<<"c4", "logs">>),
                            File(<<"c4", "logs", "b.log">>) }

\* C3 (as claimed): no regular file lying directly in the sessions directory
\* is an entry of an hourly archive.
C3_NoTopLevelFile ==
    \A h \in DOMAIN hourly :
      \A e \in hourly[h] : ~(~e.dir /\ Len(e.path) = 1)

\* C4 (as claimed): after a successful run every regular file of the tree
\* whose directory is not the sessions directory and has no blacklisted
\* directory above it has exactly one file entry at its relative path,
\* whatever its own name.
C4_EveryFileArchived ==
    Successful =>
      \A e \in tree :
        (~e.dir /\ Len(e.path) >= 2 /\ NoBlacklistedSegment(Front(e.path)))
          => /\ e \in hourly[hour]
             /\ Cardinality({x \in hourly[hour] : x.path = e.path}) = 1

\* C4 (amended): once a run has closed its hourly archive successfully, the
\* archive holds exactly one file entry, at its relative path, for every
\* such file whose own name is not a blacklisted name.
C4_EveryFileArchivedUnlessNamedBlacklisted ==
    built # <<>> =>
      \A e \in tree :
        (~e.dir /\ Len(e.path) >= 2 /\ NoBlacklistedSegment(e.path))
          => /\ hour \in DOMAIN hourly
             /\ e \in hourly[hour]
             /\ Cardinality({x \in hourly[hour] : x.path = e.path}) = 1

\* C4 witness: a successful run over a tree with a file in an included
\* directory, archived, and a file named after a blacklisted name beside
\* it, left out.
C4_Witness ==
    /\ Successful
    /\ File(<<"c4", "scripts", "a.lua">>) \in tree
    /\ File(<<"c4", "archives">>) \in tree
    /\ File(<<"c4", "scripts", "a.lua">>) \in hourly[hour]
    /\ File(<<"c4", "archives">>) \notin hourly[hour]

\* no step removes an entry of a daily archive or changes its content
C5_EntriesKept ==
    \A d \in DOMAIN daily :
      /\ d \in DOMAIN daily'
      /\ \A h \in DOMAIN daily[d] :
           h \in DOMAIN daily'[d] /\ daily'[d][h] = daily[d][h]

\* a day's archive holds exactly one entry per hour bucket in which a run
\* ended with status 0
C5_OneEntryPerRun ==
    \A d \in Days :
      okRuns[d] # {} => d \in DOMAIN daily /\ DOMAIN daily[d] = okRuns[d]

\* C5 (as claimed): after N runs in N distinct hour buckets of a day the
\* day's archive holds exactly N entries, one per hour name, and no run,
\* successful or failed, removes an entry stored earlier or changes its
\* content.
C5_DailyAccumulates == []C5_OneEntryPerRun /\ [][C5_EntriesKept]_vars

\* while it walks, now_zip holds no entry but those of entries visited
C6_OnlyOwnEntries ==
    pc = "walk" => pending \subseteq Range(SubSeq(WalkSeq, 1, i - 1))

\* a successful zip_close( now_zip ) over an hourly archive an earlier run
\* left (over the same tree) leaves the archive's set of entries as it was
C6_SameEntries ==
    (pc = "walk" /\ pc' = "open_today" /\ built' # <<>>
       /\ hour \in DOMAIN hourly)
      => hourly'[hour] = hourly[hour]

\* C6: a second run in an hour bucket, the tree unchanged, rebuilds the
\* hourly archive from an empty one instead of adding to the entries the
\* first run left, and the set of entries it writes is the set the first
\* run wrote.
C6_IdempotentRebuild == []C6_OnlyOwnEntries /\ [][C6_SameEntries]_vars

\* C6 witness: a run rebuilt a non-empty hourly archive in a bucket whose
\* entry an earlier run had already nested into the day's archive.
C6_Witness ==
    /\ pc = "done"
    /\ built # <<>>
    /\ built[1] # {}
    /\ exit = 1
    /\ failed = {"daily_add"}
    /\ day \in DOMAIN daily
    /\ hour \in DOMAIN daily[day]
    /\ daily[day][hour] = hourly[hour]

\* C7 (as claimed): a finished run has status 0 exactly when no stage
\* failed.
C7_ExitStatus == pc = "done" => (exit = 0 <=> failed = {})

\* C8 (as claimed): once a stage has failed the run is over, and a run
\* whose hourly archive failed to open, to take an entry or to close never
\* opens the daily archive.
C8_FailFast ==
    /\ failed # {} => pc = "done"
    /\ failed \cap {"hourly_open", "hourly_add", "hourly_close"} # {}
         => todayHandle = "unopened"

\* C9 (as claimed): after a run that returned 0 the day's archive holds an
\* entry for the run's hour whose content is the hourly archive that run
\* built and closed.
C9_NestedSnapshot ==
    (pc = "done" /\ exit = 0) =>
      /\ built # <<>>
      /\ day \in DOMAIN daily
      /\ hour \in DOMAIN daily[day]
      /\ daily[day][hour] = built[1]

\* C10 (as claimed): no closed archive handle is passed to the archive
\* library, and the nested entry's source is created with the open daily
\* archive handle.
C10_HandleLifecycle ==
    /\ ~usedAfterClose
    /\ srcHandle \in {"none", "today"}

====
